---- MODULE Spec2Model ----
(***************************************************************************)
(* Kitten Clicker backend: the two server variants of the repository.      *)
(*   "serverjs" : src/server.js          (persists {totalPlayers, reviews}) *)
(*   "part000"  : src/unnamed/part_000   (persists the offline records)     *)
(* One action is one whole event-loop turn: a request from the first       *)
(* middleware to the response, a 'close' event, a timer tick.              *)
(* Strings that the code inspects are sequences of one-character strings;  *)
(* an optional field is <<>> (missing) or <<v>> (present with value v).    *)
(***************************************************************************)
EXTENDS Integers, Sequences, FiniteSets, TLC

\* ---------------------------------------------------------------- bounds
MaxTime == 4000
MaxConns == 2
MaxAnon == 1
MaxEvents == 2
MaxSubmits == 103
MaxRootLoads == 2

\* ------------------------------------------------------ program constants
POINTS_PER_SECOND_OFFLINE == 1
MsPerSecond == 1000
ReviewCap == 100
ReviewPage == 10

\* --------------------------------------------------------------- strings
P1 == <<"p", "1">>
P2 == <<"p", "2">>
IP1 == <<"i", "p">>
Blank == <<" ">>
NoStr == <<>>

Max(a, b) == IF a >= b THEN a ELSE b

Min(a, b) == IF a <= b THEN a ELSE b

RECURSIVE TrimLeft(_)
TrimLeft(s) ==
  IF s # <<>> /\ Head(s) = " " THEN TrimLeft(Tail(s)) ELSE s

RECURSIVE TrimRight(_)
TrimRight(s) ==
  IF s # <<>> /\ s[Len(s)] = " " THEN TrimRight(SubSeq(s, 1, Len(s) - 1)) ELSE s

\* String.prototype.trim
Trim(s) == TrimRight(TrimLeft(s))

\* Array.prototype.slice(-n)
SliceLast(s, n) ==
  IF Len(s) <= n THEN s ELSE SubSeq(s, Len(s) - n + 1, Len(s))

\* Array.prototype.reverse
Reverse(s) == [i \in 1..Len(s) |-> s[Len(s) + 1 - i]]

\* Date.now() + Math.random(): a value no other request gets; the n-th one
\* is written as n marks.
AnonKey(n) == [i \in 1..n |-> "#"]

VARIABLES
  variant,        \* which server file runs
  now,            \* Date.now()
  offlineData,    \* Map: key -> [points, lastSeen]
  activePlayers,  \* Set of keys
  currentPlayers,
  totalPlayers,
  reviews,        \* (data.)reviews
  conn,           \* per connection slot: the request in flight and its callbacks
  timers,         \* per connection slot: live setInterval timers of its stream
  file,           \* OFFLINE_FILE / DATA_FILE on disk
  anonCount,      \* fallback keys generated so far
  resp,           \* the response of the last request
  lastReq,        \* the last request, and the kind of the last turn (history)
  hist            \* history: counters and snapshots the properties speak of

vars == <<variant, now, offlineData, activePlayers, currentPlayers, totalPlayers,
          reviews, conn, timers, file, anonCount, resp, lastReq, hist>>

Conns == 1..MaxConns

FreeConn == [open |-> FALSE, key |-> NoStr, tracked |-> FALSE, stream |-> FALSE]

NoResp ==
  [kind |-> "none", success |-> FALSE, data |-> <<>>, list |-> <<>>]

NoReq ==
  [turn |-> "start", path |-> "", key |-> NoStr, playerId |-> NoStr,
   tracked |-> FALSE, hadRecord |-> FALSE, payload |-> <<>>, before |-> <<>>,
   allPresent |-> TRUE, at |-> 0]

InitHist ==
  [maxCurrent |-> 0, rootLoads |-> 0, submitted |-> <<>>, written |-> <<>>,
   lateWrite |-> FALSE, cleared |-> [c \in Conns |-> 0],
   events |-> [c \in Conns |-> 0], once |-> [k \in {} |-> 0],
   failedWrite |-> FALSE, watch |-> {}, base |-> [k \in {} |-> [t0 |-> 0, p0 |-> 0, tn |-> 0]]]

\* the store file: offlineData.json (entries) or data.json (totalPlayers,
\* reviews). kind tells what a read of it gives: "ok" the JSON text of the
\* fields, "unreadable" readFileSync throws, "garbage" text that is not JSON,
\* "null" the JSON text null, "nullrecord" the JSON text of entries plus one
\* more key whose value is null
NoFile ==
  [exists |-> FALSE, kind |-> "ok", entries |-> {}, totalPlayers |-> 0,
   reviews |-> <<>>]

EmptyMap == [k \in {} |-> [points |-> 0, lastSeen |-> 0]]

\* the state after the top-level code of the file ran at time t with no
\* store file on disk
InitWith(t, h) ==
  /\ variant \in {"serverjs", "part000"}
  /\ now = t
  /\ offlineData = EmptyMap
  /\ activePlayers = {}
  /\ currentPlayers = 0
  /\ totalPlayers = 0
  /\ reviews = <<>>
  /\ conn = [c \in Conns |-> FreeConn]
  /\ timers = [c \in Conns |-> 0]
  /\ file = NoFile
  /\ anonCount = 0
  /\ resp = NoResp
  /\ lastReq = NoReq
  /\ hist = h

InitAt(t) == InitWith(t, InitHist)

Init == InitAt(0)

InitPart000 == Init /\ variant = "part000"

\* ------------------------------------------------------------- helpers

\* getClientIp: fwd is the x-forwarded-for header split on ',' (<<>> when the
\* header is absent or empty), ip is req.ip || req.connection.remoteAddress
getClientIp(fwd, ip) ==
  IF fwd # <<>> THEN Trim(fwd[1]) ELSE ip

\* the header/IP part of clientId (without the random fallback)
HeaderOrIp(hdr, fwd, ip) ==
  IF hdr # NoStr THEN hdr
  ELSE IF variant = "part000" THEN getClientIp(fwd, ip)
  ELSE NoStr

UsesFallback(hdr, fwd, ip) == HeaderOrIp(hdr, fwd, ip) = NoStr

\* const clientId = req.headers['x-client-id'] || getClientIp(req) || Date.now() + Math.random()
ClientId(hdr, fwd, ip) ==
  IF UsesFallback(hdr, fwd, ip) THEN AnonKey(anonCount + 1)
  ELSE HeaderOrIp(hdr, fwd, ip)

ElapsedMsUnclamped(stored, nowMs) ==
  nowMs - (IF stored.lastSeen # 0 THEN stored.lastSeen ELSE nowMs)

\* Math.max(0, nowMs - (stored.lastSeen || nowMs))
ElapsedMs(stored, nowMs) ==
  Max(0, nowMs - (IF stored.lastSeen # 0 THEN stored.lastSeen ELSE nowMs))

awardOfflinePointsRoundedUp(stored, nowMs) ==
  [points |-> stored.points
                + ((ElapsedMs(stored, nowMs) + MsPerSecond - 1) \div MsPerSecond)
                    * POINTS_PER_SECOND_OFFLINE,
   lastSeen |-> nowMs]

awardOfflinePoints(stored, nowMs) ==
  [points |-> stored.points
                + (ElapsedMs(stored, nowMs) \div MsPerSecond) * POINTS_PER_SECOND_OFFLINE,
   lastSeen |-> nowMs]

\* let stored = offlineData.get(clientId); if (!stored) ... else ...; offlineData.set(clientId, stored)
Accrue(od, key, nowMs) ==
  IF key \in DOMAIN od
  THEN [od EXCEPT ![key] = awardOfflinePoints(od[key], nowMs)]
  ELSE (key :> [points |-> 0, lastSeen |-> nowMs]) @@ od

MwOfflineSkipped(key) == offlineData

\* offlineData after the tracking middleware ran for key
MwOffline(key) ==
  IF variant = "part000" THEN Accrue(offlineData, key, now) ELSE offlineData

MwTotalNotRaised(key) == totalPlayers

\* totalPlayers after the tracking middleware ran for key
MwTotal(key) ==
  IF variant = "part000"
  THEN Max(totalPlayers, Cardinality(activePlayers \cup {key}))
  ELSE totalPlayers

SetSizeNotRefreshed(S) == currentPlayers

\* currentPlayers = activePlayers.size
SetSize(S) == Cardinality(S)

DeletedNothing(S, key) == S

\* activePlayers.delete(clientId)
Deleted(S, key) == S \ {key}

\* activePlayers.add(clientId); currentPlayers = activePlayers.size;
\* req.on('close', ...)
Track(c, hdr, fwd, ip, stream) ==
  LET key == ClientId(hdr, fwd, ip) IN
  /\ ~conn[c].open
  /\ UsesFallback(hdr, fwd, ip) => anonCount < MaxAnon
  /\ activePlayers' = activePlayers \cup {key}
  /\ currentPlayers' = SetSize(activePlayers \cup {key})
  /\ conn' = [conn EXCEPT ![c] =
                [open |-> TRUE, key |-> key, tracked |-> TRUE, stream |-> stream]]
  /\ anonCount' = IF UsesFallback(hdr, fwd, ip) THEN anonCount + 1 ELSE anonCount

\* history kept by every tracked request
\* (history: once maps a key whose record one accrual call created, and
\* nothing touched since, to the time of that call; base maps a followed key
\* (watch) to the run of accrual calls made for it since its record was
\* created or last overwritten: t0 and p0 are the time of the first call of
\* the run and the points it left, tn is the time of the last call)
Seen(key) ==
  [hist EXCEPT
     !.maxCurrent = Max(@, Cardinality(activePlayers \cup {key})),
     !.once = IF variant # "part000" THEN @
              ELSE IF key \in DOMAIN offlineData
                   THEN [k \in DOMAIN @ \ {key} |-> @[k]]
                   ELSE (key :> now) @@ @,
     !.base = IF variant # "part000" \/ key \notin hist.watch THEN @
              ELSE IF key \in DOMAIN @
                   THEN [@ EXCEPT ![key].tn = now]
                   ELSE (key :> [t0 |-> now,
                                 p0 |-> Accrue(offlineData, key, now)[key].points,
                                 tn |-> now]) @@ @]

Forget(h, key) == [h EXCEPT !.once = [k \in DOMAIN @ \ {key} |-> @[k]]]

\* offlineData.set(key, data) ends the run of accrual calls of key
Rebase(h, key) == [h EXCEPT !.base = [k \in DOMAIN @ \ {key} |-> @[k]]]

Req(path, key, playerId, payload) ==
  [turn |-> "request", path |-> path, key |-> key, playerId |-> playerId,
   tracked |-> TRUE,
   hadRecord |-> playerId \in DOMAIN offlineData, payload |-> payload,
   before |-> IF key \in DOMAIN offlineData THEN <<offlineData[key]>> ELSE <<>>,
   allPresent |-> TRUE, at |-> now]

\* ------------------------------------------------------------- requests

\* saveData() of server.js: fs.writeFileSync(DATA_FILE, JSON.stringify(data));
\* wok tells whether the write succeeds (a failure is caught and logged).
\* part_000 has no saveData.
saveData(total, revs, wok) ==
  IF variant = "serverjs" /\ wok
  THEN [exists |-> TRUE, kind |-> "ok", entries |-> {}, totalPlayers |-> total,
        reviews |-> revs]
  ELSE file

\* app.get('/')
GetRoot(c, hdr, fwd, ip, wok) ==
  LET key == ClientId(hdr, fwd, ip) IN
  /\ hist.rootLoads < MaxRootLoads
  /\ variant = "part000" => wok
  /\ Track(c, hdr, fwd, ip, FALSE)
  /\ offlineData' = MwOffline(key)
  /\ totalPlayers' = MwTotal(key) + 1
  /\ file' = saveData(MwTotal(key) + 1, reviews, wok)
  /\ resp' = [NoResp EXCEPT !.kind = "html", !.success = TRUE]
  /\ lastReq' = Req("/", key, NoStr, <<>>)
  /\ hist' = [Seen(key) EXCEPT !.rootLoads = @ + 1]
  /\ UNCHANGED <<variant, now, reviews, timers>>

\* app.get('/player-count')
GetPlayerCount(c, hdr, fwd, ip) ==
  LET key == ClientId(hdr, fwd, ip) IN
  /\ Track(c, hdr, fwd, ip, FALSE)
  /\ offlineData' = MwOffline(key)
  /\ totalPlayers' = MwTotal(key)
  /\ resp' = [NoResp EXCEPT !.kind = "json", !.success = TRUE,
                !.list = <<Cardinality(activePlayers \cup {key}), MwTotal(key)>>]
  /\ lastReq' = Req("/player-count", key, NoStr, <<>>)
  /\ hist' = Seen(key)
  /\ UNCHANGED <<variant, now, reviews, timers, file>>

\* express.static('public') answers a GET for a file of public/ (main.html,
\* which GET / sends from there); it is mounted before the tracking
\* middleware, so the chain ends here
ServeStatic(c, hdr, fwd, ip) ==
  /\ ~conn[c].open
  /\ conn' = [conn EXCEPT ![c] =
                [open |-> TRUE, key |-> ClientId(hdr, fwd, ip), tracked |-> FALSE,
                 stream |-> FALSE]]
  /\ resp' = [NoResp EXCEPT !.kind = "static", !.success = TRUE]
  /\ lastReq' = [Req("/main.html", ClientId(hdr, fwd, ip), NoStr, <<>>)
                   EXCEPT !.tracked = FALSE]
  /\ UNCHANGED <<variant, now, offlineData, activePlayers, currentPlayers,
                 totalPlayers, reviews, timers, file, anonCount, hist>>

\* express.json() fails on a body that is not JSON: next(err) skips every
\* remaining middleware and route, the default error handler answers 400
BadJsonBody(c, hdr, fwd, ip, path) ==
  /\ ~conn[c].open
  /\ conn' = [conn EXCEPT ![c] =
                [open |-> TRUE, key |-> ClientId(hdr, fwd, ip), tracked |-> FALSE,
                 stream |-> FALSE]]
  /\ resp' = [NoResp EXCEPT !.kind = "error400"]
  /\ lastReq' = [Req(path, ClientId(hdr, fwd, ip), NoStr, <<>>)
                   EXCEPT !.tracked = FALSE]
  /\ UNCHANGED <<variant, now, offlineData, activePlayers, currentPlayers,
                 totalPlayers, reviews, timers, file, anonCount, hist>>

\* const interval = setInterval(..., 5000)
SetInterval(c) == [timers EXCEPT ![c] = @ + 1]

ClearIntervalForgotten(c) == timers

\* req.on('close', () => clearInterval(interval))
ClearInterval(c) == [timers EXCEPT ![c] = @ - 1]

\* app.get('/player-count-stream'): the headers, the first event, the timer
GetPlayerCountStream(c, hdr, fwd, ip) ==
  LET key == ClientId(hdr, fwd, ip) IN
  /\ Track(c, hdr, fwd, ip, TRUE)
  /\ offlineData' = MwOffline(key)
  /\ totalPlayers' = MwTotal(key)
  /\ timers' = SetInterval(c)
  /\ resp' = [NoResp EXCEPT !.kind = "sse", !.success = TRUE,
                !.list = <<Cardinality(activePlayers \cup {key}), MwTotal(key)>>]
  /\ lastReq' = Req("/player-count-stream", key, NoStr, <<>>)
  /\ hist' = [Seen(key) EXCEPT !.events[c] = 1, !.cleared[c] = 0]
  /\ UNCHANGED <<variant, now, reviews, file>>

\* the setInterval callback of a stream: res.write(...)
StreamTick(c) ==
  /\ timers[c] > 0
  /\ hist.events[c] < MaxEvents
  /\ hist' = IF conn[c].open /\ conn[c].stream
             THEN [hist EXCEPT !.events[c] = @ + 1]
             ELSE [hist EXCEPT !.lateWrite = TRUE]
  /\ lastReq' = [lastReq EXCEPT !.turn = "tick"]
  /\ UNCHANGED <<variant, now, offlineData, activePlayers, currentPlayers,
                 totalPlayers, reviews, conn, timers, file, anonCount, resp>>

\* reviews.slice(0, 100): keeps the oldest
KeepLastKeepsOldest(revs) ==
  IF Len(revs) > ReviewCap THEN SubSeq(revs, 1, ReviewCap) ELSE revs

\* if (reviews.length > 100) reviews = reviews.slice(-100)
KeepLast(revs) ==
  IF Len(revs) > ReviewCap THEN SliceLast(revs, ReviewCap) ELSE revs

\* the review pushed: server.js trims the text, part_000 does not
Pushed(text, timestamp) ==
  [text |-> IF variant = "serverjs" THEN Trim(text) ELSE text,
   timestamp |-> timestamp]

\* app.post('/submit-review'); text and timestamp are optional fields
SubmitReview(c, hdr, fwd, ip, text, timestamp, wok) ==
  LET key == ClientId(hdr, fwd, ip)
      ok == text # <<>> /\ text[1] # NoStr /\ timestamp # <<>> /\ timestamp[1] # 0
      revs == IF ok THEN KeepLast(Append(reviews, Pushed(text[1], timestamp[1])))
              ELSE reviews
  IN
  /\ Len(hist.submitted) < MaxSubmits
  /\ variant = "part000" => wok
  /\ Track(c, hdr, fwd, ip, FALSE)
  /\ offlineData' = MwOffline(key)
  /\ totalPlayers' = MwTotal(key)
  /\ reviews' = revs
  /\ file' = IF ok THEN saveData(MwTotal(key), revs, wok) ELSE file
  /\ resp' = [NoResp EXCEPT !.kind = "json", !.success = ok]
  /\ lastReq' = [Req("/submit-review", key, NoStr, <<>>)
                   EXCEPT !.allPresent = (text # <<>> /\ timestamp # <<>>)]
  /\ hist' = IF ok
             THEN [Seen(key) EXCEPT
                     !.submitted = Append(@, Pushed(text[1], timestamp[1]))]
             ELSE Seen(key)
  /\ UNCHANGED <<variant, now, timers>>

\* app.get('/get-reviews')
GetReviews(c, hdr, fwd, ip) ==
  LET key == ClientId(hdr, fwd, ip) IN
  /\ Track(c, hdr, fwd, ip, FALSE)
  /\ offlineData' = MwOffline(key)
  /\ totalPlayers' = MwTotal(key)
  /\ resp' = [NoResp EXCEPT !.kind = "json", !.success = TRUE,
                !.list = Reverse(SliceLast(reviews, ReviewPage))]
  /\ lastReq' = Req("/get-reviews", key, NoStr, <<>>)
  /\ hist' = Seen(key)
  /\ UNCHANGED <<variant, now, reviews, timers, file>>

\* JavaScript truthiness of an optional string field
TruthyStr(f) == f # <<>> /\ f[1] # NoStr

\* app.post('/save-offline-data')
SaveOfflineData(c, hdr, fwd, ip, playerId, data) ==
  LET key == ClientId(hdr, fwd, ip)
      od == MwOffline(key)
      ok == TruthyStr(playerId) /\ data # <<>>
  IN
  /\ variant = "part000"
  /\ Track(c, hdr, fwd, ip, FALSE)
  /\ totalPlayers' = MwTotal(key)
  /\ offlineData' = IF ok THEN (playerId[1] :> data[1]) @@ od ELSE od
  /\ resp' = [NoResp EXCEPT !.kind = "json", !.success = ok]
  /\ lastReq' = [Req("/save-offline-data", key,
                       IF playerId = <<>> THEN NoStr ELSE playerId[1], data)
                   EXCEPT !.allPresent = (playerId # <<>> /\ data # <<>>)]
  /\ hist' = IF ok THEN Rebase(Forget(Seen(key), playerId[1]), playerId[1])
             ELSE Seen(key)
  /\ UNCHANGED <<variant, now, reviews, timers, file>>

\* app.post('/get-offline-data')
GetOfflineData(c, hdr, fwd, ip, playerId) ==
  LET key == ClientId(hdr, fwd, ip)
      od == MwOffline(key)
      found == TruthyStr(playerId) /\ playerId[1] \in DOMAIN od
  IN
  /\ variant = "part000"
  /\ Track(c, hdr, fwd, ip, FALSE)
  /\ totalPlayers' = MwTotal(key)
  /\ offlineData' = od
  /\ resp' = [NoResp EXCEPT !.kind = "json", !.success = found,
                !.data = IF found THEN <<od[playerId[1]]>> ELSE <<>>]
  /\ lastReq' = Req("/get-offline-data", key,
                    IF playerId = <<>> THEN NoStr ELSE playerId[1], <<>>)
  /\ hist' = Seen(key)
  /\ UNCHANGED <<variant, now, reviews, timers, file>>

\* app.get('/my-offline')
MyOffline(c, hdr, fwd, ip) ==
  LET key == ClientId(hdr, fwd, ip)
      od == MwOffline(key)
      clientId == HeaderOrIp(hdr, fwd, ip)
      od2 == IF clientId = NoStr THEN od ELSE Accrue(od, clientId, now)
  IN
  /\ variant = "part000"
  /\ Track(c, hdr, fwd, ip, FALSE)
  /\ totalPlayers' = MwTotal(key)
  /\ offlineData' = od2
  /\ resp' = [NoResp EXCEPT !.kind = "json", !.success = clientId # NoStr,
                !.data = IF clientId # NoStr THEN <<od2[clientId]>> ELSE <<>>]
  /\ lastReq' = Req("/my-offline", key, NoStr, <<>>)
  /\ hist' = IF clientId = NoStr THEN Seen(key) ELSE Forget(Seen(key), clientId)
  /\ UNCHANGED <<variant, now, reviews, timers, file>>

\* time passes between two turns of the event loop
AdvanceClock(d) ==
  /\ now + d <= MaxTime
  /\ now' = now + d
  /\ lastReq' = [lastReq EXCEPT !.turn = "clock"]
  /\ UNCHANGED <<variant, offlineData, activePlayers, currentPlayers, totalPlayers,
                 reviews, conn, timers, file, anonCount, resp, hist>>

\* a Map key as a property name of the JSON object: a string stays as it is,
\* the numeric fallback key becomes its decimal string
KeyToJson(k) == IF k # NoStr /\ k[1] = "#" THEN <<"'">> \o k ELSE k

SerializeCreditedOnly(od) ==
  {<<KeyToJson(k), od[k].points, od[k].lastSeen>> :
     k \in {j \in DOMAIN od : od[j].points > 0}}

\* JSON.stringify(Object.fromEntries([...offlineData.entries()]), null, 2)
Serialize(od) ==
  {<<KeyToJson(k), od[k].points, od[k].lastSeen>> : k \in DOMAIN od}

\* the statements of the try block that throw on the file's content:
\* readFileSync (unreadable), JSON.parse (garbage), part_000's
\* Object.entries(null) and v.points of a null record. server.js spreads a
\* parsed null into the defaults, which leaves them as they are.
Throws(f) == f.kind # "ok"

\* JSON.parse of the text persistOfflineData wrote
Parsed(f) ==
  [k \in {e[1] : e \in f.entries} |->
     LET e == CHOOSE x \in f.entries : x[1] = k IN
     [points |-> e[2], lastSeen |-> e[3]]]

\* new Map(Object.entries(raw)), then points = Number(v.points || 0) and
\* lastSeen = Number(v.lastSeen || Date.now()); the catch block leaves an
\* empty Map
LoadOfflineData(f, nowMs) ==
  IF ~f.exists \/ Throws(f) THEN EmptyMap
  ELSE [k \in {e[1] : e \in f.entries} |->
          LET e == CHOOSE x \in f.entries : x[1] = k IN
          [points |-> IF e[2] # 0 THEN e[2] ELSE 0,
           lastSeen |-> IF e[3] # 0 THEN e[3] ELSE nowMs]]

WrittenOnlyIfAbsent(f, od, wok) ==
  IF wok /\ ~f.exists
  THEN [f EXCEPT !.exists = TRUE, !.kind = "ok", !.entries = Serialize(od)]
  ELSE f

\* what persistOfflineData leaves on disk; wok: the write succeeds
Written(f, od, wok) ==
  IF wok THEN [f EXCEPT !.exists = TRUE, !.kind = "ok", !.entries = Serialize(od)]
  ELSE f

\* setInterval(persistOfflineData, OFFLINE_SAVE_INTERVAL)
persistOfflineData(wok) ==
  /\ variant = "part000"
  /\ file' = Written(file, offlineData, wok)
  /\ hist' = IF wok THEN [hist EXCEPT !.written = <<offlineData>>]
             ELSE [hist EXCEPT !.failedWrite = TRUE]
  /\ lastReq' = [lastReq EXCEPT !.turn = "persist"]
  /\ UNCHANGED <<variant, now, offlineData, activePlayers, currentPlayers,
                 totalPlayers, reviews, conn, timers, anonCount, resp>>

\* the process ends and is started again. graceful: it ends by process.exit
\* or SIGINT, which call persistOfflineData (part_000); otherwise it is
\* killed. Start: the top-level code of the file, up to app.listen.
Restart(graceful, wok) ==
  LET saved == graceful /\ wok /\ variant = "part000"
      f == IF saved THEN Written(file, offlineData, TRUE) ELSE file
  IN
  /\ graceful \/ wok
  /\ file' = f
  /\ offlineData' =
       IF variant = "part000" THEN LoadOfflineData(f, now) ELSE EmptyMap
  /\ totalPlayers' =
       IF variant = "serverjs" /\ f.exists /\ ~Throws(f) THEN f.totalPlayers
       ELSE 0
  /\ reviews' =
       IF variant = "serverjs" /\ f.exists /\ ~Throws(f) THEN f.reviews ELSE <<>>
  /\ activePlayers' = {}
  /\ currentPlayers' = 0
  /\ conn' = [c \in Conns |-> FreeConn]
  /\ timers' = [c \in Conns |-> 0]
  /\ resp' = NoResp
  /\ lastReq' = [NoReq EXCEPT !.turn = "restart", !.at = now]
  /\ hist' = [InitHist EXCEPT
                !.watch = hist.watch,
                !.written = IF saved THEN <<offlineData>> ELSE hist.written,
                !.rootLoads = hist.rootLoads,
                !.submitted = hist.submitted]
  /\ UNCHANGED <<variant, now, anonCount>>

\* the store file gets a content the process did not write: it is made
\* unreadable, or replaced, or left half written by a process killed in
\* writeFileSync
Damage(kind) ==
  /\ kind = "nullrecord" => variant = "part000"
  /\ file' = [file EXCEPT !.exists = TRUE, !.kind = kind,
                          !.entries = IF kind = "nullrecord" THEN @ ELSE {},
                          !.totalPlayers = 0, !.reviews = <<>>]
  /\ file' # file
  /\ lastReq' = [lastReq EXCEPT !.turn = "damage"]
  /\ UNCHANGED <<variant, now, offlineData, activePlayers, currentPlayers,
                 totalPlayers, reviews, conn, timers, anonCount, resp, hist>>

\* req.on('close', ...) of the tracking middleware and of the stream handler
Close(c) ==
  /\ conn[c].open
  /\ conn' = [conn EXCEPT ![c].open = FALSE]
  /\ activePlayers' =
       IF conn[c].tracked THEN Deleted(activePlayers, conn[c].key)
       ELSE activePlayers
  /\ currentPlayers' =
       IF conn[c].tracked THEN SetSize(Deleted(activePlayers, conn[c].key))
       ELSE currentPlayers
  /\ timers' = IF conn[c].stream THEN ClearInterval(c) ELSE timers
  /\ hist' = IF conn[c].stream THEN [hist EXCEPT !.cleared[c] = @ + 1] ELSE hist
  /\ lastReq' = [lastReq EXCEPT !.turn = "close"]
  /\ UNCHANGED <<variant, now, offlineData, totalPlayers, reviews, file, anonCount, resp>>

\* ---------------------------------------------- presence and the counters

\* the clients of the presence runs: <<x-client-id, req.ip>>
Visitors == { <<P1, IP1>>, <<NoStr, IP1>> }

NextPresence ==
  \E c \in Conns :
    \/ \E v \in Visitors, wok \in BOOLEAN : GetRoot(c, v[1], <<>>, v[2], wok)
    \/ \E v \in Visitors : GetPlayerCount(c, v[1], <<>>, v[2])
    \/ ServeStatic(c, P1, <<>>, IP1)
    \/ BadJsonBody(c, P1, <<>>, IP1, "/submit-review")
    \/ Close(c)

SpecPresence == Init /\ [][NextPresence]_vars

\* the keys that have at least one open tracked connection
OpenKeys == {conn[c].key : c \in {d \in Conns : conn[d].open /\ conn[d].tracked}}

IsRequest(r) == r.turn = "request"

\* C1: in every reachable state currentPlayers is the number of distinct keys
\* with at least one open connection, and a key is in the presence set iff at
\* least one connection attributed to it is open.
C1_PresenceMatchesOpenConnections ==
  /\ activePlayers = OpenKeys
  /\ currentPlayers = Cardinality(OpenKeys)

\* C8: every inbound request, whatever its path and body, has passed through
\* the presence tracker (its key is in the presence set, and in part_000 its
\* record was accrued at the request's time) when its response is produced.
C8_EveryRequestTracked ==
  IsRequest(lastReq) =>
    /\ lastReq.key \in activePlayers
    /\ variant = "part000" =>
         /\ lastReq.key \in DOMAIN offlineData
         /\ offlineData[lastReq.key].lastSeen = now

\* C9: totalPlayers never decreases; in server.js it is the number of GET /
\* loads, in part_000 it is the historical maximum of currentPlayers.
C9_TotalPlayersSemantics ==
  [][/\ totalPlayers' >= totalPlayers
     /\ variant' = "serverjs" => totalPlayers' = hist'.rootLoads
     /\ variant' = "part000" => totalPlayers' = hist'.maxCurrent]_vars

\* C14: currentPlayers equals the size of the presence set in every state,
\* and the count a /player-count answer reports is the size of the set.
C14_CurrentPlayersIsSetSize ==
  /\ currentPlayers = Cardinality(activePlayers)
  /\ (lastReq.turn = "request" /\ lastReq.path = "/player-count") =>
       resp.list[1] = Cardinality(activePlayers)

\* two keys were added and the close callback of one of them has run
C14_Witness ==
  /\ lastReq.turn = "close"
  /\ \E c, d \in Conns :
       /\ conn[c].tracked /\ conn[d].tracked
       /\ conn[c].open /\ ~conn[d].open
       /\ conn[c].key # conn[d].key
  /\ currentPlayers = 1
  /\ Cardinality(activePlayers) = 1

\* C19: a key that no open tracked connection is attributed to is not in the
\* presence set; when no tracked connection is open the set is empty and
\* currentPlayers is 0.
C19_NoOpenConnectionNoPresence ==
  /\ activePlayers \subseteq OpenKeys
  /\ OpenKeys = {} => (activePlayers = {} /\ currentPlayers = 0)

\* two connections attributed to one key were open and all have closed
C19_Witness ==
  /\ lastReq.turn = "close"
  /\ \A c \in Conns : conn[c].tracked /\ ~conn[c].open
  /\ \E c, d \in Conns : c # d /\ conn[c].key = conn[d].key
  /\ hist.maxCurrent >= 1
  /\ activePlayers = {}
  /\ currentPlayers = 0

\* C20: in part_000, totalPlayers is at least currentPlayers in every state.
C20_TotalAtLeastCurrent ==
  variant = "part000" => totalPlayers >= currentPlayers

\* two keys are present at once and no GET / has raised totalPlayers
C20_Witness ==
  /\ variant = "part000"
  /\ hist.rootLoads = 0
  /\ currentPlayers = 2
  /\ totalPlayers = 2

\* ------------------------------------------------------------- streams

NextStream ==
  \E c \in Conns :
    \/ \E hdr \in {NoStr, P1} : GetPlayerCountStream(c, hdr, <<>>, IP1)
    \/ GetPlayerCount(c, P1, <<>>, IP1)
    \/ StreamTick(c)
    \/ Close(c)

SpecStream == Init /\ [][NextStream]_vars

OpenStream(c) == conn[c].open /\ conn[c].stream

\* C6: each open stream holds exactly one timer, the timer is cleared exactly
\* once when the connection closes, nothing is written to a closed
\* connection, and the live timers are exactly those of the open streams.
C6_OneTimerPerOpenStream ==
  /\ \A c \in Conns :
       /\ timers[c] = (IF OpenStream(c) THEN 1 ELSE 0)
       /\ OpenStream(c) => hist.cleared[c] = 0
       /\ (conn[c].stream /\ ~conn[c].open) => hist.cleared[c] = 1
  /\ ~hist.lateWrite

\* a stream that got its first event and a timer event, and was then closed
C6_Witness ==
  \E c \in Conns :
    /\ conn[c].stream /\ ~conn[c].open
    /\ hist.events[c] >= 2
    /\ hist.cleared[c] = 1
    /\ timers[c] = 0
    /\ \E d \in Conns \ {c} : OpenStream(d) /\ timers[d] = 1

\* ------------------------------------------------------------- accrual

Delays == {1500, 3500}

Payloads == {[points |-> 5, lastSeen |-> 0], [points |-> 2, lastSeen |-> 2000]}

\* the clients of the accrual runs: <<x-client-id, x-forwarded-for>>
Clients ==
  { <<P1, <<>> >>, <<NoStr, << <<" ", "i", "p">>, P2 >> >>, <<NoStr, <<Blank>> >> }

NextAccrual ==
  \/ \E d \in Delays : AdvanceClock(d)
  \/ \E c \in {1}, cl \in Clients :
       \/ GetPlayerCount(c, cl[1], cl[2], IP1)
       \/ MyOffline(c, cl[1], cl[2], IP1)
       \/ \E playerId \in {<<>>, <<P1>>} :
            \/ GetOfflineData(c, cl[1], cl[2], IP1, playerId)
            \/ \E data \in {<<>>} \cup {<<p>> : p \in Payloads} :
                 SaveOfflineData(c, cl[1], cl[2], IP1, playerId, data)
       \/ Close(c)

SpecAccrual == InitPart000 /\ [][NextAccrual]_vars

Overwrites(r, ok, k) ==
  r.turn = "request" /\ r.path = "/save-offline-data" /\ ok /\ r.playerId = k

\* C2: for a key with no prior record the first accrual call creates
\* {points: 0, lastSeen: t0}; the second accrual call, D ms later, yields
\* points = floor(D/1000) * rate and lastSeen = t0 + D.
C2_FirstThenSecondAccrual ==
  [][\A k \in (DOMAIN hist.once) \cup (DOMAIN hist'.once) :
       /\ (k \notin DOMAIN hist.once) =>
            offlineData'[k] = [points |-> 0, lastSeen |-> now]
       /\ (k \notin DOMAIN hist'.once /\ ~Overwrites(lastReq', resp'.success, k)) =>
            offlineData'[k] =
              [points |-> ((now - hist.once[k]) \div MsPerSecond)
                            * POINTS_PER_SECOND_OFFLINE,
               lastSeen |-> now]]_vars

\* C3: a /save-offline-data followed immediately by a /get-offline-data for
\* the same playerId returns exactly the saved payload, whatever key the
\* two requests are attributed to.
C3_SaveThenGetReturnsPayload ==
  [][(/\ lastReq.path = "/save-offline-data" /\ resp.success
      /\ lastReq'.turn = "request"
      /\ lastReq'.path = "/get-offline-data"
      /\ lastReq'.playerId = lastReq.playerId)
       => (resp'.success /\ resp'.data = lastReq.payload)]_vars

\* C13: the accrual call at time now that follows save-offline-data(k, {p, s})
\* leaves k's record {points: p + floor(max(0, now - s) / 1000) * rate,
\* lastSeen: now}, for every p and s (s = 0 and s > now included); a
\* save-offline-data(k, d) that follows an accrual leaves the record exactly d.
C13_AccrualAfterSaveAndSaveAfterAccrual ==
  [][/\ (/\ lastReq.path = "/save-offline-data" /\ resp.success
         /\ lastReq'.turn = "request"
         /\ lastReq'.key = lastReq.playerId
         /\ ~Overwrites(lastReq', resp'.success, lastReq.playerId))
          => offlineData'[lastReq.playerId] =
               [points |-> lastReq.payload[1].points
                             + (Max(0, now - lastReq.payload[1].lastSeen)
                                  \div MsPerSecond) * POINTS_PER_SECOND_OFFLINE,
                lastSeen |-> now]
     /\ (/\ lastReq'.turn = "request"
         /\ lastReq'.path = "/save-offline-data" /\ resp'.success
         /\ lastReq'.before # <<>>)
          => offlineData'[lastReq'.playerId] = lastReq'.payload[1]]_vars

\* C7: the points of a key's record never decrease across a step that is not
\* a /save-offline-data overwrite of that key, whatever lastSeen is stored.
C7_PointsNonDecreasing ==
  [][\A k \in DOMAIN offlineData :
       ~Overwrites(lastReq', resp'.success, k) =>
         /\ k \in DOMAIN offlineData'
         /\ offlineData'[k].points >= offlineData[k].points]_vars

\* an accrual ran on a record whose lastSeen lay in the future, and left its
\* points as they were
C7_Witness ==
  /\ lastReq.turn = "request"
  /\ lastReq.path \in {"/my-offline", "/player-count"}
  /\ lastReq.before # <<>>
  /\ lastReq.before[1].lastSeen > lastReq.at
  /\ offlineData[lastReq.key].points = lastReq.before[1].points
  /\ offlineData[lastReq.key].lastSeen = lastReq.at

\* C10: a /get-offline-data for a playerId with no stored record when the
\* request arrives is answered with a failure and creates no record, also
\* when the playerId is the requester's own key.
C10_AbsentLookupFails ==
  (/\ lastReq.turn = "request"
   /\ lastReq.path = "/get-offline-data"
   /\ lastReq.playerId # NoStr
   /\ ~lastReq.hadRecord)
    => (~resp.success /\ lastReq.playerId \notin DOMAIN offlineData)

\* ------------------------------------------------------------- reviews

ReviewTexts == << <<"o", "k">>, <<" ", "h", "i", " ">>, Blank >>

\* the text and the timestamp the client sends with its n-th review
TextOf(n) == ReviewTexts[(n % Len(ReviewTexts)) + 1]

NextReviews ==
  \E c \in {1} :
    \/ \E text \in {<<>>, <<NoStr>>, <<TextOf(Len(hist.submitted) + 1)>>},
          timestamp \in {<<>>, <<0>>, <<Len(hist.submitted) + 1>>},
          wok \in BOOLEAN :
         SubmitReview(c, P1, <<>>, IP1, text, timestamp, wok)
    \/ GetReviews(c, P1, <<>>, IP1)
    \/ Close(c)

SpecReviews == Init /\ [][NextReviews]_vars

\* C4: after n accepted submissions the log holds the min(n, 100) most recent
\* reviews in submission order, and /get-reviews answers the min(n, 10) most
\* recent ones, newest first.
C4_ReviewLogKeepsLast100 ==
  LET n == Len(hist.submitted) IN
  /\ Len(reviews) = Min(n, ReviewCap)
  /\ \A i \in 1..Len(reviews) : reviews[i] = hist.submitted[n - Len(reviews) + i]
  /\ (lastReq.turn = "request" /\ lastReq.path = "/get-reviews") =>
       /\ Len(resp.list) = Min(n, ReviewPage)
       /\ \A i \in 1..Len(resp.list) : resp.list[i] = hist.submitted[n + 1 - i]

\* 101 reviews were submitted: the first is gone, and /get-reviews answered
\* the ten newest
C4_Witness ==
  /\ Len(hist.submitted) = ReviewCap + 1
  /\ Len(reviews) = ReviewCap
  /\ reviews[1] = hist.submitted[2]
  /\ lastReq.turn = "request" /\ lastReq.path = "/get-reviews"
  /\ Len(resp.list) = ReviewPage
  /\ resp.list[1] = hist.submitted[ReviewCap + 1]

\* ------------------------------------------------- runs of accrual calls

Steps == {500, 1000}

InitSplit == InitWith(0, [InitHist EXCEPT !.watch = {P1}]) /\ variant = "part000"

NextSplit ==
  \/ \E d \in Steps : AdvanceClock(d)
  \/ \E c \in {1} :
       \/ GetPlayerCount(c, P1, <<>>, IP1)
       \/ MyOffline(c, P1, <<>>, IP1)
       \/ \E p \in Payloads : SaveOfflineData(c, P1, <<>>, IP1, <<P1>>, <<p>>)
       \/ Close(c)

SpecSplit == InitSplit /\ [][NextSplit]_vars

\* C12: over a run of accrual calls for one key at times t0 <= ... <= tn
\* with no overwrite in between, lastSeen after the last call is tn and the
\* points credited since t0 are at most floor((tn - t0) / 1000) * rate; a
\* call at the timestamp of the previous call leaves the record unchanged.
C12_RunCreditBounded ==
  /\ [](\A k \in DOMAIN hist.base :
          /\ k \in DOMAIN offlineData
          /\ hist.base[k].t0 <= hist.base[k].tn
          /\ offlineData[k].lastSeen = hist.base[k].tn
          /\ offlineData[k].points - hist.base[k].p0
               <= ((hist.base[k].tn - hist.base[k].t0) \div MsPerSecond)
                    * POINTS_PER_SECOND_OFFLINE)
  /\ [][\A k \in DOMAIN hist.base :
          (/\ k \in DOMAIN hist'.base
           /\ lastReq'.turn = "request"
           /\ lastReq'.key = k
           /\ hist.base[k].tn = now)
            => offlineData'[k] = offlineData[k]]_vars

\* a run that starts after time 0 and is split at sub-second offsets credits
\* strictly less than floor((tn - t0) / 1000) * rate
C12_Witness ==
  \E k \in DOMAIN hist.base :
    /\ hist.base[k].t0 > 0
    /\ offlineData[k].lastSeen = hist.base[k].tn
    /\ offlineData[k].points - hist.base[k].p0
         < ((hist.base[k].tn - hist.base[k].t0) \div MsPerSecond)
              * POINTS_PER_SECOND_OFFLINE

\* ------------------------------------------------------ request fields

NextFields ==
  \E c \in {1} :
    \/ \E text \in {<<>>, <<NoStr>>, <<TextOf(Len(hist.submitted) + 1)>>},
          timestamp \in {<<>>, <<0>>, <<Len(hist.submitted) + 1>>} :
         SubmitReview(c, P1, <<>>, IP1, text, timestamp, TRUE)
    \/ \E playerId \in {<<>>, <<NoStr>>, <<P1>>, <<P2>>},
          data \in {<<>>} \cup {<<p>> : p \in Payloads} :
         SaveOfflineData(c, P1, <<>>, IP1, playerId, data)
    \/ Close(c)

SpecFields == Init /\ [][NextFields]_vars

\* C11: a /submit-review without text or timestamp is answered with a failure
\* and leaves the log unchanged; a /save-offline-data without playerId or
\* offlineData is answered with a failure and its handler leaves the records
\* as the middleware left them; a request with all fields present is accepted.
C11_MissingFieldsRejectedOthersAccepted ==
  [][lastReq'.turn = "request" =>
       /\ lastReq'.path = "/submit-review" =>
            IF lastReq'.allPresent THEN resp'.success
            ELSE ~resp'.success /\ reviews' = reviews
       /\ lastReq'.path = "/save-offline-data" =>
            IF lastReq'.allPresent THEN resp'.success
            ELSE /\ ~resp'.success
                 /\ offlineData' = Accrue(offlineData, lastReq'.key, now)]_vars

\* ------------------------------------------------------- persistent store

StartTime == 1500

NextStore ==
  \/ \E d \in {StartTime} : AdvanceClock(d)
  \/ \E wok \in BOOLEAN : persistOfflineData(wok)
  \/ \E graceful \in BOOLEAN, wok \in BOOLEAN : Restart(graceful, wok)
  \/ \E c \in {1}, cl \in {<<P1, <<>> >>} :
       \/ MyOffline(c, cl[1], cl[2], IP1)
       \/ \E data \in {<<p>> : p \in Payloads} :
            SaveOfflineData(c, cl[1], cl[2], IP1, <<P2>>, data)
       \/ Close(c)

\* part_000 started at a time after the epoch, with no store file
InitStore == InitAt(StartTime) /\ variant = "part000"

SpecStore == InitStore /\ [][NextStore]_vars

\* C5: writing the offline records with persistOfflineData, restarting and
\* loading the file before any request reproduces the records written: the
\* same keys, each with the same points and the same lastSeen.
C5_StoreRoundTrip ==
  (lastReq.turn = "restart" /\ hist.written # <<>>) =>
    offlineData = hist.written[1]

\* C15: across every step of a running process (request, close, overwrite,
\* persistence tick) no key leaves offlineData, and every key the middleware
\* has observed has a record from its first request onward.
C15_RecordsNeverDeleted ==
  /\ [][lastReq'.turn # "restart" =>
          DOMAIN offlineData \subseteq DOMAIN offlineData']_vars
  /\ [](\A c \in Conns : conn[c].tracked => conn[c].key \in DOMAIN offlineData)

\* the records of the requester and of an overwritten key are both there
\* after the request's connection closed and the file was written
C15_Witness ==
  /\ lastReq.turn = "close"
  /\ lastReq.path = "/save-offline-data"
  /\ conn[1].tracked /\ ~conn[1].open
  /\ file.exists
  /\ DOMAIN offlineData = {P1, P2}

\* the timer of setInterval(persistOfflineData, OFFLINE_SAVE_INTERVAL) keeps
\* firing while the process runs, and writes succeed again and again
SpecStoreFair == SpecStore /\ WF_vars(persistOfflineData(TRUE))

\* the store file holds the records of the in-memory mapping
InSync ==
  file.exists /\ file.kind = "ok" /\ file.entries = Serialize(offlineData)

\* C16: a persistence tick, failed or not, leaves the in-memory state
\* unchanged and the process running, a failed write leaves the file as it
\* was, and as long as ticks keep firing and writes succeed again the file
\* holds the in-memory records again and again.
C16_FailedWriteRetried ==
  /\ [][lastReq'.turn = "persist" =>
          /\ UNCHANGED <<offlineData, activePlayers, currentPlayers,
                         totalPlayers, reviews, conn, timers, resp>>
          /\ file' # file => InSync']_vars
  /\ []<>InSync

\* a write failed, and a later tick wrote the records of that time
C16_Witness ==
  /\ hist.failedWrite
  /\ lastReq.turn = "persist"
  /\ offlineData # EmptyMap
  /\ InSync

\* --------------------------------------------- snapshots and interleaving

Gaps == {1000, 1500}

\* requests of one key on several connections at once, close callbacks and
\* timer ticks, one callback per turn of the event loop
NextSnapshot ==
  \/ \E d \in Gaps : AdvanceClock(d)
  \/ \E wok \in BOOLEAN : persistOfflineData(wok)
  \/ \E c \in Conns :
       \/ GetPlayerCount(c, P1, <<>>, IP1)
       \/ MyOffline(c, P1, <<>>, IP1)
       \/ Close(c)

SpecSnapshot == InitStore /\ [][NextSnapshot]_vars

\* C18: a persistence tick writes the whole in-memory mapping as it stands
\* between two callbacks and leaves it untouched, and a request whose key has
\* another request in flight applies its accrual to the record the earlier
\* request left: no credit and no lastSeen update is lost.
C18_SnapshotWholeNoLostUpdate ==
  /\ [][lastReq'.turn = "persist" =>
          /\ offlineData' = offlineData
          /\ file' # file =>
               /\ file'.exists
               /\ file'.entries =
                    {<<KeyToJson(k), offlineData[k].points, offlineData[k].lastSeen>> :
                       k \in DOMAIN offlineData}]_vars
  /\ [][(/\ lastReq'.turn = "request"
          /\ lastReq'.key \in OpenKeys
          /\ lastReq'.key \in DOMAIN offlineData)
           => offlineData'[lastReq'.key] =
                [points |-> offlineData[lastReq'.key].points
                              + ((now - offlineData[lastReq'.key].lastSeen)
                                   \div MsPerSecond) * POINTS_PER_SECOND_OFFLINE,
                 lastSeen |-> now]]_vars
  /\ [](file.exists =>
          /\ hist.written # <<>>
          /\ file.entries =
               {<<KeyToJson(k), hist.written[1][k].points,
                  hist.written[1][k].lastSeen>> : k \in DOMAIN hist.written[1]})

\* two requests of one key are in flight, the later one was credited, and a
\* tick has written the mapping
C18_Witness ==
  /\ lastReq.turn = "persist"
  /\ \A c \in Conns : conn[c].open /\ conn[c].key = P1
  /\ offlineData[P1].points >= 1
  /\ file.exists
  /\ hist.written = <<offlineData>>

\* ------------------------------------------------------------- startup

FileKinds == {"unreadable", "garbage", "null", "nullrecord"}

NextStart ==
  \/ \E kind \in FileKinds : Damage(kind)
  \/ \E graceful \in BOOLEAN, wok \in BOOLEAN : Restart(graceful, wok)
  \/ persistOfflineData(TRUE)
  \/ \E c \in {1} :
       \/ GetRoot(c, P1, <<>>, IP1, TRUE)
       \/ \E data \in {<<p>> : p \in Payloads} :
            SaveOfflineData(c, P1, <<>>, IP1, <<P2>>, data)
       \/ Close(c)

InitStart == InitAt(StartTime)

SpecStart == InitStart /\ [][NextStart]_vars

\* C17: whatever the store file holds when the process starts, the process
\* starts: from a file that is read and parsed the parsed content becomes
\* the in-memory state, from a file that is absent, unreadable, not JSON,
\* null or a mapping with a null record the state is the empty/default one,
\* and the requests that follow are served.
C17_StartupNeverFails ==
  /\ [](lastReq.turn = "restart" =>
          IF file.exists /\ file.kind = "ok"
          THEN /\ variant = "part000" => offlineData = Parsed(file)
               /\ variant = "serverjs" =>
                    (totalPlayers = file.totalPlayers /\ reviews = file.reviews)
          ELSE offlineData = EmptyMap /\ totalPlayers = 0 /\ reviews = <<>>)
  /\ [][(lastReq.turn = "restart" /\ lastReq'.turn = "request") =>
          /\ resp'.kind # "none"
          /\ activePlayers' = {lastReq'.key}
          /\ currentPlayers' = 1
          /\ variant = "part000" => lastReq'.key \in DOMAIN offlineData']_vars

\* ------------------------------------------------------ the whole server

\* every turn of the event loop; the runs above each take the part of it
\* their properties speak of
Next ==
  \/ NextPresence
  \/ NextStream
  \/ NextAccrual
  \/ NextReviews
  \/ NextStore
  \/ NextSplit
  \/ NextFields
  \/ NextSnapshot
  \/ NextStart

Spec == Init /\ [][Next]_vars

====
